---------------------------- MODULE Spec2Model ----------------------------
(***************************************************************************)
(* A model of loggermanager.py: Logger_Manager fanning one log call out to *)
(* a file sink with generational rotation (File_Logger), a console sink    *)
(* (StdOut_Logger) and a batched mail sink (Mail_Logger).  The file and    *)
(* console sinks are handlers of the process-wide logger                   *)
(* logging.getLogger("Logger_Manager"); the mail sink is a plain object.   *)
(*                                                                         *)
(* Strings are sequences of one-character strings, so that concatenation   *)
(* and formatting are what the code computes.                              *)
(***************************************************************************)
EXTENDS Integers, Sequences, FiniteSets, TLC

(***************************************************************************)
(* Loglevel (IntEnum over the logging module's levels) and logging.NOTSET. *)
(***************************************************************************)
CRITICAL == 50
DEBUG == 10
INFO == 20
WARN == 30
ERROR == 40
NOTVALID == -1
\* logging.NOTSET: the level of a logger or handler on which setLevel was
\* never called.
NOTSET == 0

(***************************************************************************)
(* Bounds of the model.                                                    *)
(***************************************************************************)
\* log calls in one behaviour
MaxLogs == 2
\* setup_mail calls in one behaviour
MaxMailSetups == 2
\* send_mail calls in one behaviour
MaxSends == 2
\* setup_logfile calls in one behaviour
MaxFileSetups == 3
\* setup_stdout calls in one behaviour
MaxStdoutSetups == 2
\* Logger_Manager constructions and process restarts in one behaviour
MaxLifetimes == 1
\* largest retention count passed to setup_logfile
MaxRot == 2

\* The managers of one process.
Managers == {1, 2}

\* Levels given to log calls, and thresholds given to setup calls and to
\* the constructor (NOTVALID: the argument is left out).
MsgLevels == {DEBUG, INFO, WARN}
SetupLevels == {NOTVALID, DEBUG, INFO, WARN}
DefaultLevels == {INFO, WARN}

(***************************************************************************)
(* Strings.                                                                *)
(***************************************************************************)
NL == "\n"
DigitStr == <<"0", "1", "2", "3", "4", "5", "6", "7", "8", "9">>

\* str(k) of a one-digit number, as "{}".format(k) prints it.
Str(k) == <<DigitStr[k + 1]>>

\* The message of the k-th log call: every call logs a text of its own.
MsgOf(k) == <<"m">> \o Str(k)

RECURSIVE SplitLines(_, _)
\* text.split on NL: the lines of text, cur being the line read so far
\* (a trailing unterminated line is kept).
SplitLines(text, cur) ==
    IF text = <<>> THEN (IF cur = <<>> THEN <<>> ELSE <<cur>>)
    ELSE IF Head(text) = NL THEN <<cur>> \o SplitLines(Tail(text), <<>>)
    ELSE SplitLines(Tail(text), Append(cur, Head(text)))

Lines(text) == SplitLines(text, <<>>)

SeqToSet(s) == {s[i] : i \in 1..Len(s)}

(***************************************************************************)
(* Mail_Logger.                                                            *)
(***************************************************************************)
\* The delivery parameters a behaviour chooses from: a base configuration
\* and one variant per parameter.
MailConfigs ==
    { [server |-> "smtp1", from_email |-> "me", to_email |-> "ops", subject |-> "run"],
      [server |-> "smtp2", from_email |-> "me", to_email |-> "ops", subject |-> "run"],
      [server |-> "smtp1", from_email |-> "you", to_email |-> "ops", subject |-> "run"],
      [server |-> "smtp1", from_email |-> "me", to_email |-> "dev", subject |-> "run"],
      [server |-> "smtp1", from_email |-> "me", to_email |-> "ops", subject |-> "job"] }

\* How the transport behaves in one Send: all three calls return, or
\* smtplib.SMTP(server), sendmail() or quit() raises.
SendOutcomes == {"ok", "connect_raises", "sendmail_raises", "quit_raises"}

\* Logger_Manager.mail_logger = None.  (The delivery parameters are not
\* attributes of a Mail_Logger before its first setup, and are read only
\* once initialised is True; "" stands for them until then.)
NoMailLogger ==
    [present |-> FALSE, initialised |-> FALSE, min_log_level |-> NOTSET,
     body |-> <<>>, server |-> "", from_email |-> "", to_email |-> "",
     subject |-> ""]

Mail_Logger_init(min_log_level) ==
    [present |-> TRUE, initialised |-> FALSE, min_log_level |-> min_log_level,
     body |-> <<>>, server |-> "", from_email |-> "", to_email |-> "",
     subject |-> ""]

\* The delivery parameters of a mail logger.
ConfigOf(self) ==
    [server |-> self.server, from_email |-> self.from_email,
     to_email |-> self.to_email, subject |-> self.subject]

\* The message Send composes and hands to sendmail: MIMEText(body) with the
\* Subject, From and To headers, sent through SMTP(server) with the envelope
\* from_email -> to_email.
ComposeMail(self) ==
    [server |-> self.server, from_email |-> self.from_email,
     to_email |-> self.to_email, subject |-> self.subject,
     body |-> self.body]

\* Each of the three results below is [ml: the mail logger afterwards,
\* err: the exception that leaves the call ("none": it returns),
\* mails: the messages the transport accepted].

\* Send as it would be with lines 124-125 moved above line 120: the body is
\* cleared before the transport is tried.
Mail_Logger_Send_ClearsFirst(self, outcome) ==
    IF self.initialised
    THEN LET cleared == [self EXCEPT !.body = <<>>, !.initialised = FALSE]
         IN  CASE outcome \in {"connect_raises", "sendmail_raises"} ->
                    [ml |-> cleared, err |-> "SMTPException", mails |-> <<>>]
               [] outcome = "quit_raises" ->
                    [ml |-> cleared, err |-> "SMTPException",
                     mails |-> <<ComposeMail(self)>>]
               [] OTHER ->
                    [ml |-> cleared, err |-> "none",
                     mails |-> <<ComposeMail(self)>>]
    ELSE [ml |-> self, err |-> "none", mails |-> <<>>]

\* Send as it would be without line 125: the sink stays initialised.
Mail_Logger_Send_StaysInitialised(self, outcome) ==
    IF self.initialised
    THEN CASE outcome \in {"connect_raises", "sendmail_raises"} ->
                [ml |-> self, err |-> "SMTPException", mails |-> <<>>]
           [] outcome = "quit_raises" ->
                [ml |-> self, err |-> "SMTPException",
                 mails |-> <<ComposeMail(self)>>]
           [] OTHER ->
                [ml |-> [self EXCEPT !.body = <<>>],
                 err |-> "none", mails |-> <<ComposeMail(self)>>]
    ELSE [ml |-> self, err |-> "none", mails |-> <<>>]

\* Send as it would be without line 124: the body is kept.
Mail_Logger_Send_KeepsBody(self, outcome) ==
    IF self.initialised
    THEN CASE outcome \in {"connect_raises", "sendmail_raises"} ->
                [ml |-> self, err |-> "SMTPException", mails |-> <<>>]
           [] outcome = "quit_raises" ->
                [ml |-> self, err |-> "SMTPException",
                 mails |-> <<ComposeMail(self)>>]
           [] OTHER ->
                [ml |-> [self EXCEPT !.initialised = FALSE],
                 err |-> "none", mails |-> <<ComposeMail(self)>>]
    ELSE [ml |-> self, err |-> "none", mails |-> <<>>]

Mail_Logger_Send(self, outcome) ==
    IF self.initialised
    THEN CASE outcome = "connect_raises" ->
                [ml |-> self, err |-> "SMTPException", mails |-> <<>>]
           [] outcome = "sendmail_raises" ->
                [ml |-> self, err |-> "SMTPException", mails |-> <<>>]
           [] outcome = "quit_raises" ->
                [ml |-> self, err |-> "SMTPException",
                 mails |-> <<ComposeMail(self)>>]
           [] OTHER ->
                [ml |-> [self EXCEPT !.body = <<>>, !.initialised = FALSE],
                 err |-> "none", mails |-> <<ComposeMail(self)>>]
    ELSE [ml |-> self, err |-> "none", mails |-> <<>>]

\* setup as it would be if it also started a new body.
Mail_Logger_setup_ClearsBody(self, server, from_email, to_email, subject) ==
    IF /\ self.initialised
       /\ self.body # <<>>
       /\ \/ server # self.server
          \/ from_email # self.from_email
          \/ to_email # self.to_email
          \/ subject # self.subject
    THEN [ml |-> self, err |-> "NameError", mails |-> <<>>]
    ELSE [ml |-> [self EXCEPT !.server = server, !.from_email = from_email,
                              !.to_email = to_email, !.subject = subject,
                              !.initialised = TRUE, !.body = <<>>],
          err |-> "none", mails |-> <<>>]

\* Line 96 calls the bare name Send, which is bound neither in the method
\* nor in the module: evaluating it raises NameError before anything is
\* sent or assigned.
Mail_Logger_setup(self, server, from_email, to_email, subject) ==
    IF /\ self.initialised
       /\ self.body # <<>>
       /\ \/ server # self.server
          \/ from_email # self.from_email
          \/ to_email # self.to_email
          \/ subject # self.subject
    THEN [ml |-> self, err |-> "NameError", mails |-> <<>>]
    ELSE [ml |-> [self EXCEPT !.server = server, !.from_email = from_email,
                              !.to_email = to_email, !.subject = subject,
                              !.initialised = TRUE],
          err |-> "none", mails |-> <<>>]

\* log as it would be with > for >= on line 107.
Mail_Logger_log_Strict(self, log_level, body) ==
    IF self.initialised
    THEN IF log_level > self.min_log_level
         THEN [self EXCEPT !.body = self.body \o body \o <<NL>>]
         ELSE self
    ELSE self

Mail_Logger_log(self, log_level, body) ==
    IF self.initialised
    THEN IF log_level >= self.min_log_level
         THEN [self EXCEPT !.body = self.body \o body \o <<NL>>]
         ELSE self
    ELSE self

(***************************************************************************)
(* The filesystem.  A file name is a string; fs maps every name the model  *)
(* can form to whether a regular file exists there and to its lines.  A    *)
(* line of a logfile is the record the handler's formatter prints:         *)
(* "%(asctime)s %(levelname)s %(message)s".                                *)
(***************************************************************************)
\* The logfile paths a behaviour chooses from, and '' (no file logging).
Paths == {<<"a">>, <<"b">>}
NoPath == <<>>

\* "{}.{}".format(logfile, k)
Fmt(logfile, k) == logfile \o <<".">> \o Str(k)

\* Every name setup_logfile can touch with the paths and retention counts
\* of the model, and one generation beyond.
Generations == 0..(MaxRot + 1)
AllNames == Paths \cup {Fmt(p, k) : p \in Paths, k \in Generations}

NoFile == [exists |-> FALSE, data |-> <<>>]
EmptyFile == [exists |-> TRUE, data |-> <<>>]

\* A file left by an earlier run: one line that names where it was.
OldFile(name) ==
    [exists |-> TRUE,
     data |-> <<[asctime |-> 0, levelname |-> "OLD", message |-> name]>>]

\* The target of a handler whose file was deleted or replaced: its stream
\* still writes, to a file no name reaches.
Unlinked == <<"?">>

\* logging.getLevelName
LevelName(level) ==
    CASE level = DEBUG -> "DEBUG"
      [] level = INFO -> "INFO"
      [] level = WARN -> "WARNING"
      [] level = ERROR -> "ERROR"
      [] level = CRITICAL -> "CRITICAL"
      [] OTHER -> "Level"

(***************************************************************************)
(* The world a File_Logger acts on: w.fs the filesystem, w.tab the handler *)
(* objects of the process (a handler is its index in tab), w.handlers and  *)
(* w.level the handler list and level of the logger, w.ops the filesystem  *)
(* calls made so far in this call.  An open stream follows its file        *)
(* through a rename and survives its deletion (POSIX), so remove and       *)
(* replace retarget the handlers that have the file open.                  *)
(***************************************************************************)
isfile(w, name) == w.fs[name].exists

\* os.remove(name)
remove(w, name) ==
    [w EXCEPT
       !.fs = [w.fs EXCEPT ![name] = NoFile],
       !.tab = [i \in DOMAIN w.tab |->
                  IF w.tab[i].target = name
                  THEN [w.tab[i] EXCEPT !.target = Unlinked]
                  ELSE w.tab[i]],
       !.ops = Append(w.ops, [op |-> "remove", src |-> name, dst |-> name,
                              clobbers |-> FALSE])]

\* os.replace(src, dst): dst is overwritten when it exists.
replace(w, src, dst) ==
    [w EXCEPT
       !.fs = [w.fs EXCEPT ![dst] = w.fs[src], ![src] = NoFile],
       !.tab = [i \in DOMAIN w.tab |->
                  IF w.tab[i].target = dst
                  THEN [w.tab[i] EXCEPT !.target = Unlinked]
                  ELSE IF w.tab[i].target = src
                  THEN [w.tab[i] EXCEPT !.target = dst]
                  ELSE w.tab[i]],
       !.ops = Append(w.ops, [op |-> "replace", src |-> src, dst |-> dst,
                              clobbers |-> w.fs[dst].exists])]

\* logging.FileHandler(logfile): opens logfile for appending, creating it
\* when it is absent; the handler's level is NOTSET.  Returns the world with
\* the new handler as the last of tab.
FileHandler(w, logfile, owner) ==
    [w EXCEPT
       !.fs = IF w.fs[logfile].exists THEN w.fs
              ELSE [w.fs EXCEPT ![logfile] = EmptyFile],
       !.tab = Append(w.tab, [kind |-> "file", level |-> NOTSET,
                              target |-> logfile, owner |-> owner]),
       !.ops = Append(w.ops, [op |-> "open", src |-> logfile, dst |-> logfile,
                              clobbers |-> FALSE])]

\* logging.StreamHandler(stdout) followed by setLevel(level)
StreamHandler(w, level, owner) ==
    [w EXCEPT
       !.tab = Append(w.tab, [kind |-> "stream", level |-> level,
                              target |-> NoPath, owner |-> owner])]

\* Logger.removeHandler: hdlr = 0 stands for None, never in the list.
removeHandler(w, hdlr) ==
    [w EXCEPT !.handlers = SelectSeq(w.handlers, LAMBDA h : h # hdlr)]

\* Logger.addHandler
addHandler(w, hdlr) ==
    IF hdlr \in SeqToSet(w.handlers) THEN w
    ELSE [w EXCEPT !.handlers = Append(w.handlers, hdlr)]

\* Logger.setLevel
setLevel(w, level) == [w EXCEPT !.level = level]

(***************************************************************************)
(* File_Logger.                                                            *)
(***************************************************************************)
\* Logger_Manager.File_Logger = None
NoFileLogger ==
    [present |-> FALSE, min_log_level |-> NOTSET, log_handler |-> 0,
     rotated_logfiles |-> <<>>]

File_Logger_init(min_log_level) ==
    [present |-> TRUE, min_log_level |-> min_log_level, log_handler |-> 0,
     rotated_logfiles |-> <<>>]

RECURSIVE RotateUp(_, _, _, _)
\* The renames of generations file_ver..last_ver in ascending order.
RotateUp(w, logfile, file_ver, last_ver) ==
    IF file_ver > last_ver THEN w
    ELSE LET target_file == IF file_ver > 1 THEN Fmt(logfile, file_ver - 1)
                            ELSE logfile
             w1 == IF isfile(w, target_file)
                   THEN replace(w, target_file, Fmt(logfile, file_ver))
                   ELSE w
         IN  RotateUp(w1, logfile, file_ver + 1, last_ver)

\* The loop as it would be over range(1, num_rotated + 1).
RotateLoop_Ascending(w, logfile, file_ver) == RotateUp(w, logfile, 1, file_ver)

RECURSIVE RotateLoop(_, _, _)
\* for file_ver in range(num_rotated, 0, -1), from file_ver on.
RotateLoop(w, logfile, file_ver) ==
    IF file_ver <= 0 THEN w
    ELSE LET target_file == IF file_ver > 1 THEN Fmt(logfile, file_ver - 1)
                            ELSE logfile
             w1 == IF isfile(w, target_file)
                   THEN replace(w, target_file, Fmt(logfile, file_ver))
                   ELSE w
         IN  RotateLoop(w1, logfile, file_ver - 1)

\* The test as it would be without the rotated_logfiles list.
Rotates_Every_Time(self, w, logfile) == isfile(w, logfile)

\* Whether rotate_old_logfiles rotates: the path was not rotated by this
\* File_Logger before and a file is there.
Rotates(self, w, logfile) ==
    /\ logfile \notin SeqToSet(self.rotated_logfiles)
    /\ isfile(w, logfile)

\* rotate_old_logfiles as it would be with the generations counted from
\* num_rotated + 1.
rotate_old_logfiles_OneMore(self, w, logfile, num_rotated) ==
    IF Rotates(self, w, logfile)
    THEN LET w1 == IF isfile(w, Fmt(logfile, num_rotated + 1))
                   THEN remove(w, Fmt(logfile, num_rotated + 1))
                   ELSE w
         IN  [self |-> [self EXCEPT !.rotated_logfiles =
                                       Append(self.rotated_logfiles, logfile)],
              w |-> RotateLoop(w1, logfile, num_rotated + 1)]
    ELSE [self |-> self, w |-> w]

\* rotate_old_logfiles as it would be without lines 52-53: the oldest
\* generation is not deleted before the renames.
rotate_old_logfiles_NoRemove(self, w, logfile, num_rotated) ==
    IF Rotates(self, w, logfile)
    THEN [self |-> [self EXCEPT !.rotated_logfiles =
                                  Append(self.rotated_logfiles, logfile)],
          w |-> RotateLoop(w, logfile, num_rotated)]
    ELSE [self |-> self, w |-> w]

\* Returns [self, w].
rotate_old_logfiles(self, w, logfile, num_rotated) ==
    IF Rotates(self, w, logfile)
    THEN LET w1 == IF isfile(w, Fmt(logfile, num_rotated))
                   THEN remove(w, Fmt(logfile, num_rotated))
                   ELSE w
         IN  [self |-> [self EXCEPT !.rotated_logfiles =
                                       Append(self.rotated_logfiles, logfile)],
              w |-> RotateLoop(w1, logfile, num_rotated)]
    ELSE [self |-> self, w |-> w]

\* setup as it would be without lines 69-70: the handler of the previous
\* call stays on the logger.
File_Logger_setup_KeepsHandler(self, w, logfile, num_rotated, owner) ==
    IF logfile # NoPath
    THEN LET r == rotate_old_logfiles(self, w, logfile, num_rotated)
             w1 == FileHandler(r.w, logfile, owner)
             h == Len(w1.tab)
         IN  [self |-> [r.self EXCEPT !.log_handler = h],
              w |-> setLevel(addHandler(w1, h), self.min_log_level)]
    ELSE [self |-> self, w |-> w]

\* Returns [self, w].
File_Logger_setup(self, w, logfile, num_rotated, owner) ==
    LET w0 == IF self.log_handler # 0 THEN removeHandler(w, self.log_handler)
              ELSE w
    IN  IF logfile # NoPath
        THEN LET r == rotate_old_logfiles(self, w0, logfile, num_rotated)
                 w1 == FileHandler(r.w, logfile, owner)
                 h == Len(w1.tab)
             IN  [self |-> [r.self EXCEPT !.log_handler = h],
                  w |-> setLevel(addHandler(w1, h), self.min_log_level)]
        ELSE [self |-> self, w |-> w0]

(***************************************************************************)
(* StdOut_Logger.                                                          *)
(***************************************************************************)
\* Logger_Manager.stdout_logger = None
NoStdOutLogger == [present |-> FALSE, min_log_level |-> NOTSET, log_handler |-> 0]

\* Returns [self, w].
StdOut_Logger_init(w, min_log_level, owner) ==
    LET w1 == StreamHandler(w, min_log_level, owner)
        h == Len(w1.tab)
    IN  [self |-> [present |-> TRUE, min_log_level |-> min_log_level,
                   log_handler |-> h],
         w |-> setLevel(addHandler(w1, h), min_log_level)]

(***************************************************************************)
(* Logger.log of the logging module, for a logger below a root logger that *)
(* has no handlers and the level the module gives it (WARNING).            *)
(***************************************************************************)
\* Logger.hasHandlers
hasHandlers(w) == w.handlers # <<>>

\* Logger.getEffectiveLevel
getEffectiveLevel(w) == IF w.level # NOTSET THEN w.level ELSE WARN

\* What Handler.handle writes for one record, [fs, console]: a file handler
\* appends the formatted line to its file, a stream handler to the console.
Emit(out, hdlr, rec) ==
    IF hdlr.kind = "file"
    THEN IF hdlr.target = Unlinked THEN out
         ELSE [out EXCEPT !.fs[hdlr.target].data =
                 Append(@, [asctime |-> rec.time,
                            levelname |-> LevelName(rec.level),
                            message |-> rec.msg])]
    ELSE [out EXCEPT !.console =
            Append(@, [levelname |-> LevelName(rec.level),
                       message |-> rec.msg, handler |-> hdlr.owner])]

RECURSIVE callHandlers(_, _, _, _)
\* Logger.callHandlers over the handlers hs: each handler whose level the
\* record reaches handles it.
callHandlers(out, tab, hs, rec) ==
    IF hs = <<>> THEN out
    ELSE LET hdlr == tab[Head(hs)]
             out1 == IF rec.level >= hdlr.level THEN Emit(out, hdlr, rec)
                     ELSE out
         IN  callHandlers(out1, tab, Tail(hs), rec)

\* Logger.log(level, msg): dropped unless the logger is enabled for level.
Logger_log(out, w, rec) ==
    IF rec.level >= getEffectiveLevel(w)
    THEN callHandlers(out, w.tab, w.handlers, rec)
    ELSE out

(***************************************************************************)
(* State.                                                                  *)
(***************************************************************************)
VARIABLES
    \* the process: the filesystem, the handler objects, and the handler
    \* list and level of logging.getLogger("Logger_Manager")
    fs, handlerTab, loggerHandlers, loggerLevel,
    \* each Logger_Manager's attributes
    min_log_level, File_Logger, stdout_logger, mail_logger,
    \* what the outside sees: the lines written to stdout, the messages the
    \* mail transport accepted, the last call (its name and the exception
    \* that left it, "none" when it returned), the filesystem calls it made
    console, sent, last, fsTrace,
    \* how many calls of each kind were made
    calls,
    \* history: per manager the messages its mail logger appended, each with
    \* the delivery parameters of that moment; per manager the log calls made
    \* since its mail logger last went from uninitialised to initialised;
    \* per manager and path what was at the path before the manager's first
    \* setup_logfile on it
    admitted, window, firstPre

vars == <<fs, handlerTab, loggerHandlers, loggerLevel, min_log_level,
          File_Logger, stdout_logger, mail_logger, console, sent, last,
          fsTrace, calls, admitted, window, firstPre>>

processVars == <<handlerTab, loggerHandlers, loggerLevel>>
mailVars == <<mail_logger, sent, admitted, window>>

World == [fs |-> fs, tab |-> handlerTab, handlers |-> loggerHandlers,
          level |-> loggerLevel, ops |-> <<>>]

\* firstPre[m][p] before manager m's first setup_logfile on path p.  After
\* it: whether a file was at p and the retention count was at least 1
\* (rotated), and if so the lines the file held.
\* again: a later setup_logfile of m on p followed.
NotSeen == [seen |-> FALSE, rotated |-> FALSE, data |-> <<>>, again |-> FALSE]

\* Logger_Manager.__init__(level) for every manager of a fresh process,
\* over the filesystem files.
InitWith(files, level) ==
    /\ fs = files
    /\ handlerTab = <<>>
    /\ loggerHandlers = <<>>
    /\ loggerLevel = NOTSET
    /\ min_log_level = [m \in Managers |-> level]
    /\ File_Logger = [m \in Managers |-> NoFileLogger]
    /\ stdout_logger = [m \in Managers |-> NoStdOutLogger]
    /\ mail_logger = [m \in Managers |-> NoMailLogger]
    /\ console = <<>>
    /\ sent = <<>>
    /\ last = [op |-> "__init__", err |-> "none"]
    /\ fsTrace = <<>>
    /\ calls = [log |-> 0, setup_mail |-> 0, send_mail |-> 0,
                setup_logfile |-> 0, setup_stdout |-> 0, lifetimes |-> 0]
    /\ admitted = [m \in Managers |-> <<>>]
    /\ window = [m \in Managers |-> <<>>]
    /\ firstPre = [m \in Managers |-> [p \in Paths |-> NotSeen]]

\* The filesystems a run can start from: any of the files of path "a" left
\* by earlier runs, nothing at the other path.
StartFiles ==
    { [n \in AllNames |-> IF n \in old THEN OldFile(n) ELSE NoFile] :
        old \in SUBSET ({<<"a">>} \cup {Fmt(<<"a">>, k) : k \in Generations}) }

(***************************************************************************)
(* Logger_Manager.                                                         *)
(***************************************************************************)
\* min_log_level = self.min_log_level when the argument is left out
Resolve(m, level) == IF level = NOTVALID THEN min_log_level[m] ELSE level

setup_logfile(m, logfile, num_rotated, level) ==
    LET self == IF File_Logger[m].present THEN File_Logger[m]
                ELSE File_Logger_init(Resolve(m, level))
        r == File_Logger_setup(self, World, logfile, num_rotated, m)
    IN  /\ File_Logger' = [File_Logger EXCEPT ![m] = r.self]
        /\ fs' = r.w.fs
        /\ handlerTab' = r.w.tab
        /\ loggerHandlers' = r.w.handlers
        /\ loggerLevel' = r.w.level
        /\ fsTrace' = r.w.ops
        /\ last' = [op |-> "setup_logfile", err |-> "none"]

SetupLogfile(m, logfile, num_rotated, level) ==
    /\ calls.setup_logfile < MaxFileSetups
    /\ calls' = [calls EXCEPT !.setup_logfile = @ + 1]
    /\ setup_logfile(m, logfile, num_rotated, level)
    /\ firstPre' =
         IF logfile # NoPath /\ ~firstPre[m][logfile].seen
         THEN [firstPre EXCEPT ![m][logfile] =
                 IF fs[logfile].exists /\ num_rotated >= 1
                 THEN [seen |-> TRUE, rotated |-> TRUE,
                       data |-> fs[logfile].data, again |-> FALSE]
                 ELSE [seen |-> TRUE, rotated |-> FALSE, data |-> <<>>,
                       again |-> FALSE]]
         ELSE IF logfile # NoPath
         THEN [firstPre EXCEPT ![m][logfile].again = TRUE]
         ELSE firstPre
    /\ UNCHANGED <<min_log_level, stdout_logger, console, mailVars>>

setup_stdout(m, level) ==
    IF stdout_logger[m].present
    THEN UNCHANGED <<stdout_logger, processVars>>
    ELSE LET r == StdOut_Logger_init(World, Resolve(m, level), m)
         IN  /\ stdout_logger' = [stdout_logger EXCEPT ![m] = r.self]
             /\ handlerTab' = r.w.tab
             /\ loggerHandlers' = r.w.handlers
             /\ loggerLevel' = r.w.level

SetupStdout(m, level) ==
    /\ calls.setup_stdout < MaxStdoutSetups
    /\ calls' = [calls EXCEPT !.setup_stdout = @ + 1]
    /\ setup_stdout(m, level)
    /\ last' = [op |-> "setup_stdout", err |-> "none"]
    /\ fsTrace' = <<>>
    /\ UNCHANGED <<fs, min_log_level, File_Logger, console,
                   mailVars, firstPre>>

\* setup_mail as it would be if every call stored its min_log_level.
setup_mail_StoresLevel(m, cfg, level) ==
    LET self == IF mail_logger[m].present
                THEN [mail_logger[m] EXCEPT !.min_log_level = Resolve(m, level)]
                ELSE Mail_Logger_init(Resolve(m, level))
        r == Mail_Logger_setup(self, cfg.server, cfg.from_email,
                               cfg.to_email, cfg.subject)
    IN  /\ mail_logger' = [mail_logger EXCEPT ![m] = r.ml]
        /\ sent' = sent \o r.mails
        /\ last' = [op |-> "setup_mail", err |-> r.err]

setup_mail(m, cfg, level) ==
    LET self == IF mail_logger[m].present THEN mail_logger[m]
                ELSE Mail_Logger_init(Resolve(m, level))
        r == Mail_Logger_setup(self, cfg.server, cfg.from_email,
                               cfg.to_email, cfg.subject)
    IN  /\ mail_logger' = [mail_logger EXCEPT ![m] = r.ml]
        /\ sent' = sent \o r.mails
        /\ last' = [op |-> "setup_mail", err |-> r.err]

SetupMail(m, cfg, level) ==
    /\ calls.setup_mail < MaxMailSetups
    /\ calls' = [calls EXCEPT !.setup_mail = @ + 1]
    /\ setup_mail(m, cfg, level)
    /\ window' = IF mail_logger[m].initialised THEN window
                 ELSE [window EXCEPT ![m] = <<>>]
    /\ fsTrace' = <<>>
    /\ UNCHANGED <<fs, processVars, min_log_level, File_Logger,
                   stdout_logger, console, admitted, firstPre>>

\* The record of the k-th log call: its level, its message, and the time
\* of the call.
Record(k, log_level) == [level |-> log_level, msg |-> MsgOf(k), time |-> k]

log(m, rec) ==
    LET ml == IF mail_logger[m].present
              THEN Mail_Logger_log(mail_logger[m], rec.level, rec.msg)
              ELSE mail_logger[m]
        out0 == [fs |-> fs, console |-> console]
        out == IF hasHandlers(World) THEN Logger_log(out0, World, rec)
               ELSE out0
    IN  /\ mail_logger' = [mail_logger EXCEPT ![m] = ml]
        /\ fs' = out.fs
        /\ console' = out.console
        /\ admitted' =
             IF ml.body # mail_logger[m].body
             THEN [admitted EXCEPT ![m] =
                     Append(@, [msg |-> rec.msg, cfg |-> ConfigOf(ml)])]
             ELSE admitted

Log(m, log_level) ==
    /\ calls.log < MaxLogs
    /\ calls' = [calls EXCEPT !.log = @ + 1]
    /\ log(m, Record(calls.log + 1, log_level))
    /\ window' = IF mail_logger[m].initialised
                 THEN [window EXCEPT ![m] =
                         Append(@, [level |-> log_level,
                                    msg |-> MsgOf(calls.log + 1)])]
                 ELSE window
    /\ last' = [op |-> "log", err |-> "none"]
    /\ fsTrace' = <<>>
    /\ UNCHANGED <<processVars, min_log_level, File_Logger, stdout_logger,
                   sent, firstPre>>

\* send_mail as it would be without the test of line 223: None has no Send.
send_mail_NoTest(m, outcome) ==
    IF mail_logger[m].present
    THEN LET r == Mail_Logger_Send(mail_logger[m], outcome)
         IN  /\ mail_logger' = [mail_logger EXCEPT ![m] = r.ml]
             /\ sent' = sent \o r.mails
             /\ last' = [op |-> "send_mail", err |-> r.err]
    ELSE /\ UNCHANGED <<mail_logger, sent>>
         /\ last' = [op |-> "send_mail", err |-> "AttributeError"]

send_mail(m, outcome) ==
    IF mail_logger[m].present
    THEN LET r == Mail_Logger_Send(mail_logger[m], outcome)
         IN  /\ mail_logger' = [mail_logger EXCEPT ![m] = r.ml]
             /\ sent' = sent \o r.mails
             /\ last' = [op |-> "send_mail", err |-> r.err]
    ELSE /\ UNCHANGED <<mail_logger, sent>>
         /\ last' = [op |-> "send_mail", err |-> "none"]

SendMail(m, outcome) ==
    /\ calls.send_mail < MaxSends
    /\ calls' = [calls EXCEPT !.send_mail = @ + 1]
    /\ send_mail(m, outcome)
    /\ fsTrace' = <<>>
    /\ UNCHANGED <<fs, processVars, min_log_level, File_Logger,
                   stdout_logger, console, admitted, window, firstPre>>

\* m = Logger_Manager(level): a new manager takes the place of manager m in
\* the same process.  The handlers the old one attached stay on the logger.
NewManager(m, level) ==
    /\ calls.lifetimes < MaxLifetimes
    /\ calls' = [calls EXCEPT !.lifetimes = @ + 1]
    /\ min_log_level' = [min_log_level EXCEPT ![m] = level]
    /\ File_Logger' = [File_Logger EXCEPT ![m] = NoFileLogger]
    /\ stdout_logger' = [stdout_logger EXCEPT ![m] = NoStdOutLogger]
    /\ mail_logger' = [mail_logger EXCEPT ![m] = NoMailLogger]
    /\ admitted' = [admitted EXCEPT ![m] = <<>>]
    /\ window' = [window EXCEPT ![m] = <<>>]
    /\ firstPre' = [firstPre EXCEPT ![m] = [p \in Paths |-> NotSeen]]
    /\ last' = [op |-> "__init__", err |-> "none"]
    /\ fsTrace' = <<>>
    /\ UNCHANGED <<fs, processVars, console, sent>>

\* The process ends and a new one starts, its managers constructed with
\* level: the logger and every object are new, the files stay.
Restart(level) ==
    /\ calls.lifetimes < MaxLifetimes
    /\ calls' = [calls EXCEPT !.lifetimes = @ + 1]
    /\ handlerTab' = <<>>
    /\ loggerHandlers' = <<>>
    /\ loggerLevel' = NOTSET
    /\ min_log_level' = [m \in Managers |-> level]
    /\ File_Logger' = [m \in Managers |-> NoFileLogger]
    /\ stdout_logger' = [m \in Managers |-> NoStdOutLogger]
    /\ mail_logger' = [m \in Managers |-> NoMailLogger]
    /\ admitted' = [m \in Managers |-> <<>>]
    /\ window' = [m \in Managers |-> <<>>]
    /\ firstPre' = [m \in Managers |-> [p \in Paths |-> NotSeen]]
    /\ last' = [op |-> "__init__", err |-> "none"]
    /\ fsTrace' = <<>>
    /\ UNCHANGED <<fs, console, sent>>

(***************************************************************************)
(* Specifications.                                                         *)
(*   Spec       one manager's file sink on one path, over manager          *)
(*              lifetimes and process restarts, from any set of files left *)
(*              by earlier runs: rotation.                                 *)
(*   SpecLevels one manager's file and console sinks with every threshold, *)
(*              from an empty directory: filtering.                        *)
(*   SpecMail   one manager's mail sink.                                   *)
(***************************************************************************)
\* Spec: the managers' default level, and the levels logged.
RotDefault == {INFO}
RotMsgLevels == {INFO}

Init == \E files \in StartFiles, l \in RotDefault : InitWith(files, l)

Next ==
    \/ \E n \in 0..MaxRot : SetupLogfile(1, <<"a">>, n, NOTVALID)
    \/ \E l \in RotMsgLevels : Log(1, l)
    \/ \E l \in RotDefault : NewManager(1, l)
    \/ \E l \in RotDefault : Restart(l)

Spec == Init /\ [][Next]_vars

NoFiles == [n \in AllNames |-> NoFile]

InitLevels == \E l \in DefaultLevels : InitWith(NoFiles, l)

NextLevels ==
    \/ \E l \in SetupLevels : SetupLogfile(1, <<"a">>, 1, l)
    \/ \E l \in SetupLevels : SetupStdout(1, l)
    \/ \E l \in MsgLevels : Log(1, l)

SpecLevels == InitLevels /\ [][NextLevels]_vars

\* SpecMail: the thresholds given to setup_mail, and the levels logged.
MailSetupLevels == {NOTVALID, DEBUG}
MailMsgLevels == {DEBUG, WARN}

InitMail == \E l \in DefaultLevels : InitWith(NoFiles, l)

NextMail ==
    \/ \E cfg \in MailConfigs, l \in MailSetupLevels : SetupMail(1, cfg, l)
    \/ \E l \in MailMsgLevels : Log(1, l)
    \/ \E o \in SendOutcomes : SendMail(1, o)

SpecMail == InitMail /\ [][NextMail]_vars

(***************************************************************************)
(* The mail sink (SpecMail).                                               *)
(***************************************************************************)
\* The lines of the body the mail logger of manager 1 holds.
BodyLines == SeqToSet(Lines(mail_logger[1].body))

\* The dispatched mails that hold msg as a line.
MailsWith(msg) == {i \in 1..Len(sent) : msg \in SeqToSet(Lines(sent[i].body))}

RECURSIVE ExpectedBody(_, _)
\* B1 NL B2 NL ... for the messages Bi of the log calls cs whose level is at
\* least threshold, in call order.
ExpectedBody(cs, threshold) ==
    IF cs = <<>> THEN <<>>
    ELSE (IF Head(cs).level >= threshold THEN Head(cs).msg \o <<NL>>
          ELSE <<>>) \o ExpectedBody(Tail(cs), threshold)

\* C2 (as claimed): setup_mail(B) on an initialised sink with a non-empty
\* body and delivery parameters A # B dispatches the accumulated body under
\* A, and the sink holds B afterwards.
C2_ReconfigurationFlush ==
    [][\A cfg \in MailConfigs, l \in SetupLevels :
         (/\ SetupMail(1, cfg, l)
          /\ mail_logger[1].initialised
          /\ mail_logger[1].body # <<>>
          /\ cfg # ConfigOf(mail_logger[1]))
         => /\ sent' = Append(sent, ComposeMail(mail_logger[1]))
            /\ ConfigOf(mail_logger'[1]) = cfg]_vars

\* C3: a send_mail that returns, on an initialised sink, dispatches exactly
\* one message, whose body is the messages of the log calls made since
\* setup_mail initialised the sink that reach the threshold, each followed by
\* a newline, in call order; and it leaves the accumulated body empty.
C3_MailAccumulation ==
    [][(SendMail(1, "ok") /\ mail_logger[1].initialised)
         => /\ Len(sent') = Len(sent) + 1
            /\ SubSeq(sent', 1, Len(sent)) = sent
            /\ sent'[Len(sent')].body =
                 ExpectedBody(window[1], mail_logger[1].min_log_level)
            /\ mail_logger'[1].body = <<>>]_vars

\* A mail of two messages was dispatched and the body is empty again.
C3_Witness ==
    /\ last = [op |-> "send_mail", err |-> "none"]
    /\ Len(sent) = 1
    /\ Len(Lines(sent[1].body)) = 2
    /\ mail_logger[1].body = <<>>

\* C7: a send_mail that returns, on an initialised sink, leaves the body
\* empty and initialised false; and on a sink that is not initialised every
\* log call leaves the body empty and every send_mail dispatches nothing,
\* the sink staying uninitialised (until a setup_mail).
C7_FlushedSinkIsInert ==
    [][/\ (SendMail(1, "ok") /\ mail_logger[1].initialised)
            => /\ mail_logger'[1].body = <<>>
               /\ ~mail_logger'[1].initialised
       /\ (/\ mail_logger[1].present
           /\ ~mail_logger[1].initialised
           /\ \/ \E l \in MsgLevels : Log(1, l)
              \/ \E o \in SendOutcomes : SendMail(1, o))
            => /\ mail_logger'[1].body = <<>>
               /\ ~mail_logger'[1].initialised
               /\ sent' = sent]_vars

\* A log call was made on a sink that a send_mail had flushed.
C7_Witness ==
    /\ last = [op |-> "log", err |-> "none"]
    /\ mail_logger[1].present
    /\ ~mail_logger[1].initialised
    /\ sent # <<>>
    /\ mail_logger[1].body = <<>>

\* C8: when smtplib.SMTP(server) or sendmail raises in send_mail, the
\* exception leaves the call, nothing is dispatched and the mail logger
\* (body, delivery parameters, initialised) is unchanged; the body of an
\* initialised sink is at all times the complete text of the admitted calls,
\* which is what a later send_mail dispatches.
C8_TransportFailureKeepsBody ==
    [][/\ \A o \in {"connect_raises", "sendmail_raises"} :
            (SendMail(1, o) /\ mail_logger[1].initialised)
            => /\ last'.err # "none"
               /\ mail_logger' = mail_logger
               /\ sent' = sent
       /\ mail_logger'[1].initialised
            => mail_logger'[1].body =
                 ExpectedBody(window'[1], mail_logger'[1].min_log_level)]_vars

\* A send_mail failed before anything was dispatched, with text accumulated.
C8_Witness ==
    /\ last = [op |-> "send_mail", err |-> "SMTPException"]
    /\ sent = <<>>
    /\ mail_logger[1].body # <<>>

\* The state part of C9: each admitted message is in the body or in exactly
\* one dispatched mail, and every mail that holds it was sent with the
\* delivery parameters of its admission.
C9_EachMessageOnce ==
    \A i \in 1..Len(admitted[1]) :
        LET a == admitted[1][i]
        IN  /\ \/ a.msg \in BodyLines
               \/ Cardinality(MailsWith(a.msg)) = 1
            /\ \A j \in MailsWith(a.msg) :
                  [server |-> sent[j].server, from_email |-> sent[j].from_email,
                   to_email |-> sent[j].to_email, subject |-> sent[j].subject]
                  = a.cfg

\* C9 (as claimed): in every reachable state each message the mail sink
\* admitted is still in the accumulated body or was included in exactly one
\* dispatched mail, sent with the delivery parameters in force at its
\* admission; and the delivery parameters never change while the body is
\* non-empty without a dispatch.
C9_NoLossNoCrossContamination ==
    [][/\ C9_EachMessageOnce'
       /\ (/\ mail_logger[1].initialised
           /\ mail_logger[1].body # <<>>
           /\ ConfigOf(mail_logger'[1]) # ConfigOf(mail_logger[1]))
            => Len(sent') > Len(sent)]_vars

\* C10: setup_mail with the delivery parameters an initialised sink already
\* has dispatches nothing and leaves the body unchanged; setup_mail on a sink
\* that is not initialised, or with other parameters while the body is
\* empty, adopts the parameters and initialises the sink, dispatching
\* nothing.
C10_SetupMailFrame ==
    [][\A cfg \in MailConfigs, l \in SetupLevels :
         SetupMail(1, cfg, l)
         => /\ (mail_logger[1].initialised /\ cfg = ConfigOf(mail_logger[1]))
                 => /\ sent' = sent
                    /\ mail_logger'[1].body = mail_logger[1].body
            /\ (\/ ~mail_logger[1].initialised
                \/ (cfg # ConfigOf(mail_logger[1]) /\ mail_logger[1].body = <<>>))
                 => /\ ConfigOf(mail_logger'[1]) = cfg
                    /\ mail_logger'[1].initialised
                    /\ sent' = sent]_vars

\* A setup_mail returned on a sink that holds accumulated text: it was given
\* the parameters the sink had.
C10_Witness ==
    /\ last = [op |-> "setup_mail", err |-> "none"]
    /\ mail_logger[1].body # <<>>
    /\ sent = <<>>

(***************************************************************************)
(* Filtering by the file and console sinks (SpecLevels).                   *)
(***************************************************************************)
\* The file sink of manager m is enabled: its handler is on the logger.
FileSinkOn(m) ==
    /\ File_Logger[m].present
    /\ File_Logger[m].log_handler \in SeqToSet(loggerHandlers)

\* The file the file sink of manager m writes to.
FileOf(m) == handlerTab[File_Logger[m].log_handler].target

\* C1 (as claimed): with the file sink (threshold Tf) and the console sink
\* (threshold Tc) of a manager both enabled, a log(level) call is written to
\* the file iff level >= Tf and to the console iff level >= Tc.
C1_IndependentThresholds ==
    [][\A l \in MsgLevels :
         (Log(1, l) /\ FileSinkOn(1) /\ stdout_logger[1].present)
         => /\ (fs'[FileOf(1)].data # fs[FileOf(1)].data)
                 <=> (l >= File_Logger[1].min_log_level)
            /\ (console' # console)
                 <=> (l >= stdout_logger[1].min_log_level)]_vars

(***************************************************************************)
(* Rotation (Spec).                                                        *)
(***************************************************************************)
PathA == <<"a">>

IsPrefix(s, t) == Len(s) <= Len(t) /\ SubSeq(t, 1, Len(s)) = s

\* The step is a setup_logfile(p, n, _) call.
SetupStep(p, n) ==
    \E m \in Managers, l \in SetupLevels : SetupLogfile(m, p, n, l)

\* C4: when a file was at path before a manager's first
\* setup_logfile(path, N >= 1, _), what it held is at path.1 after that call
\* and after every later call (it stays the head of path.1), and every later
\* setup_logfile of that manager on the path deletes and renames nothing.
C4_IdempotentRotation ==
    [][/\ \A p \in Paths :
            firstPre'[1][p].rotated
            => /\ fs'[Fmt(p, 1)].exists
               /\ IsPrefix(firstPre'[1][p].data, fs'[Fmt(p, 1)].data)
       /\ \A p \in Paths, n \in 0..MaxRot, l \in SetupLevels :
            (SetupLogfile(1, p, n, l) /\ firstPre[1][p].rotated)
            => /\ fs' = fs
               /\ \A i \in 1..Len(fsTrace') : fsTrace'[i].op = "open"]_vars

\* The manager rotated the path on its first call, logged, and called
\* setup_logfile on the path again: the old lines are path.1.
C4_Witness ==
    /\ last.op = "setup_logfile"
    /\ firstPre[1][PathA].rotated
    /\ firstPre[1][PathA].again
    /\ firstPre[1][PathA].data # <<>>
    /\ fs[Fmt(PathA, 1)].data = firstPre[1][PathA].data
    /\ fs[PathA].data # <<>>

\* No generation of p beyond N exists.
NoGenAbove(p, N) == \A k \in Generations : k > N => ~fs[Fmt(p, k)].exists

\* C5: no step other than a setup_logfile on the path with another
\* retention count creates a generation beyond N: when none exists before a
\* setup_logfile(path, N, _), a log call, a new manager or a restart, none
\* exists after it, so path.(N+1) does not exist and at most N of the
\* generations path.1, path.2, ... do.
C5_RotationInvariant ==
    [][\A N \in 0..MaxRot :
         (/\ NoGenAbove(PathA, N)
          /\ \/ SetupStep(PathA, N)
             \/ ~ \E n \in 0..MaxRot : SetupStep(PathA, n))
         => /\ NoGenAbove(PathA, N)'
            /\ ~fs'[Fmt(PathA, N + 1)].exists
            /\ Cardinality({k \in Generations :
                              k >= 1 /\ fs'[Fmt(PathA, k)].exists}) <= N]_vars

\* Two rotations with retention count 2 moved the file first at the path to
\* path.2, and no generation beyond 2 exists.
C5_Witness ==
    /\ last.op = "setup_logfile"
    /\ fs[Fmt(PathA, 2)].exists
    /\ fs[Fmt(PathA, 2)].data # <<>>
    /\ fs[Fmt(PathA, 2)].data[1].message = PathA
    /\ NoGenAbove(PathA, 2)

\* The filesystem f after the files of p are shifted by one generation with
\* retention count n.
ExpectedShift(f, p, n) ==
    [x \in AllNames |->
       IF x = p THEN EmptyFile
       ELSE IF x = Fmt(p, 1) THEN f[p]
       ELSE IF \E k \in 1..(n - 1) : x = Fmt(p, k + 1)
       THEN f[Fmt(p, CHOOSE k \in 1..(n - 1) : x = Fmt(p, k + 1))]
       ELSE f[x]]

\* C6: a setup_logfile(path, N >= 1, _) that rotates leaves the old path at
\* path.1, the old path.k at path.(k+1) for k in 1..N-1 (absent where path.k
\* was absent), the old path.N nowhere, every other file as it was, and an
\* empty file at path; and a file at a logfile path gets lines only from a
\* log call whose level the logger admits.
C6_RotationShifts ==
    [][/\ \A n \in 1..MaxRot, l \in SetupLevels :
            (/\ SetupLogfile(1, PathA, n, l)
             /\ fs[PathA].exists
             /\ PathA \notin SeqToSet(File_Logger[1].rotated_logfiles))
            => fs' = ExpectedShift(fs, PathA, n)
       /\ \A p \in Paths :
            (/\ fs[p].exists
             /\ fs'[p].exists
             /\ fs'[p].data # fs[p].data
             /\ fs'[p].data # <<>>)
            => \E l \in MsgLevels :
                  Log(1, l) /\ l >= getEffectiveLevel(World)]_vars

\* A rotation with retention count 2 over path, path.1 and path.2: path.2
\* was deleted, path.1 went to path.2, path to path.1, and path is empty.
C6_Witness ==
    /\ last.op = "setup_logfile"
    /\ Len(fsTrace) = 4
    /\ fsTrace[1] = [op |-> "remove", src |-> Fmt(PathA, 2),
                     dst |-> Fmt(PathA, 2), clobbers |-> FALSE]
    /\ fs[PathA] = EmptyFile
    /\ fs[Fmt(PathA, 1)].data[1].message = PathA
    /\ fs[Fmt(PathA, 2)].data[1].message = Fmt(PathA, 1)

(***************************************************************************)
(* The threshold of the mail sink (SpecMailLevels): one manager's mail     *)
(* sink, where every setup_mail after the first is given a min_log_level   *)
(* other than the threshold the sink has.                                  *)
(***************************************************************************)
\* The delivery parameters given in SpecMailLevels.
ThresholdConfigs ==
    { [server |-> "smtp1", from_email |-> "me", to_email |-> "ops", subject |-> "run"],
      [server |-> "smtp2", from_email |-> "me", to_email |-> "ops", subject |-> "run"] }

NextMailLevels ==
    \/ \E cfg \in ThresholdConfigs, l \in SetupLevels :
          /\ ~mail_logger[1].present
          /\ SetupMail(1, cfg, l)
    \/ \E cfg \in ThresholdConfigs, l \in SetupLevels :
          /\ mail_logger[1].present
          /\ Resolve(1, l) # mail_logger[1].min_log_level
          /\ SetupMail(1, cfg, l)
    \/ \E l \in MsgLevels : Log(1, l)
    \/ SendMail(1, "ok")

SpecMailLevels == InitMail /\ [][NextMailLevels]_vars

\* C11: the first setup_mail of a manager makes the mail logger with the
\* min_log_level it is given (the manager's default when left out); every
\* later setup_mail leaves that threshold as it is, whatever min_log_level
\* it is given; and a log call on an initialised sink appends its message
\* iff its level is at least that threshold.
C11_MailThresholdFixed ==
    [][/\ \A cfg \in ThresholdConfigs, l \in SetupLevels :
            SetupMail(1, cfg, l)
            => mail_logger'[1].min_log_level =
                 IF mail_logger[1].present THEN mail_logger[1].min_log_level
                 ELSE Resolve(1, l)
       /\ mail_logger[1].present
            => mail_logger'[1].min_log_level = mail_logger[1].min_log_level
       /\ \A x \in MsgLevels :
            (Log(1, x) /\ mail_logger[1].initialised)
            => (mail_logger'[1].body # mail_logger[1].body
                  <=> x >= mail_logger[1].min_log_level)]_vars

\* After a second setup_mail, given another min_log_level than the
\* threshold WARN of the sink, a log call below WARN was dropped.
C11_Witness ==
    /\ calls.setup_mail = 2
    /\ last = [op |-> "log", err |-> "none"]
    /\ calls.log = 1
    /\ mail_logger[1].initialised
    /\ mail_logger[1].min_log_level = WARN
    /\ mail_logger[1].body = <<>>

(***************************************************************************)
(* The thresholds later setup calls give (SpecLevels).                     *)
(***************************************************************************)
\* What a log call of manager 1 with level x would write in this state.
WouldWrite(x) ==
    LET out0 == [fs |-> fs, console |-> console]
    IN  IF hasHandlers(World) THEN Logger_log(out0, World, Record(0, x))
        ELSE out0

\* A log call with level x would add a line to a file, to the console.
FileRecords(x) == WouldWrite(x).fs # fs
ConsoleRecords(x) == WouldWrite(x).console # console

\* C12 (as claimed): after every setup_logfile(path, N, min_level) with a
\* non-empty path, the first or a later one, the file records a message iff
\* its level is at least the min_level of that call (the manager's default
\* when left out).
C12_SetupLogfileAppliesLevel ==
    [][\A p \in Paths, n \in 0..MaxRot, l \in SetupLevels :
         SetupLogfile(1, p, n, l)
         => \A x \in MsgLevels :
               FileRecords(x)' <=> x >= Resolve(1, l)]_vars

\* C13 (as claimed): after every setup_stdout(min_level), the first or a
\* later one, the console writes a message iff its level is at least the
\* min_level of that call (the manager's default when left out).
C13_SetupStdoutReconfigures ==
    [][\A l \in SetupLevels :
         SetupStdout(1, l)
         => \A x \in MsgLevels :
               ConsoleRecords(x)' <=> x >= Resolve(1, l)]_vars

(***************************************************************************)
(* Two managers in one process (SpecTwo): each sets up its own logfile and *)
(* its console sink, and logs.                                             *)
(***************************************************************************)
\* The logfile of each manager.
PathOf(m) == IF m = 1 THEN <<"a">> ELSE <<"b">>

\* SpecTwo: the thresholds given to the setup calls, and the levels logged.
TwoSetupLevels == {NOTVALID, DEBUG}
TwoMsgLevels == {DEBUG, INFO}

InitTwo == InitWith(NoFiles, INFO)

NextTwo ==
    \/ \E m \in Managers, l \in TwoSetupLevels : SetupLogfile(m, PathOf(m), 1, l)
    \/ \E m \in Managers, l \in TwoSetupLevels : SetupStdout(m, l)
    \/ \E m \in Managers, l \in TwoMsgLevels : Log(m, l)

SpecTwo == InitTwo /\ [][NextTwo]_vars

\* The levels at which a log call would add a line to the logfile of
\* manager o, and a line of o's handler to the console.
FileLevels(o) ==
    {x \in MsgLevels : WouldWrite(x).fs[PathOf(o)] # fs[PathOf(o)]}
ConsoleLevels(o) ==
    {x \in MsgLevels :
       \E i \in (Len(console) + 1)..Len(WouldWrite(x).console) :
          WouldWrite(x).console[i].handler = o}

\* C14 (as claimed): a log call on one manager leaves the logfile of the
\* other manager as it was, writes to the console only through its own
\* manager's handler and at most once; and a setup_logfile or setup_stdout
\* on one manager leaves the levels the other manager's file and console
\* record as they were.
C14_ManagerIsolation ==
    [][\A m \in Managers :
         LET o == 3 - m
         IN  /\ (\E x \in TwoMsgLevels : Log(m, x))
                  => /\ fs'[PathOf(o)] = fs[PathOf(o)]
                     /\ Len(console') <= Len(console) + 1
                     /\ \A i \in (Len(console) + 1)..Len(console') :
                           console'[i].handler = m
             /\ (\E l \in TwoSetupLevels :
                    SetupLogfile(m, PathOf(m), 1, l) \/ SetupStdout(m, l))
                  => /\ FileLevels(o)' = FileLevels(o)
                     /\ ConsoleLevels(o)' = ConsoleLevels(o)]_vars

(***************************************************************************)
(* One manager with its three sinks (SpecSinks): the only manager of the   *)
(* process sets up, disables and moves its logfile, sets up the console    *)
(* and the mail sink once each, logs, and calls send_mail while it has no  *)
(* mail logger.                                                            *)
(***************************************************************************)
\* SpecSinks: the delivery parameters, the thresholds given to the setup
\* calls, and the levels logged.
SinksConfig ==
    [server |-> "smtp1", from_email |-> "me", to_email |-> "ops", subject |-> "run"]
SinksSetupLevels == {WARN}
SinksMsgLevels == {INFO, WARN}

\* A directory with the logfile "a" of an earlier run.
SinksFiles == [n \in AllNames |-> IF n = <<"a">> THEN OldFile(n) ELSE NoFile]

InitSinks == InitWith(SinksFiles, INFO)

NextSinks ==
    \/ \E p \in Paths \cup {NoPath} : SetupLogfile(1, p, 1, NOTVALID)
    \/ \E l \in SinksSetupLevels :
          ~stdout_logger[1].present /\ SetupStdout(1, l)
    \/ ~mail_logger[1].present /\ SetupMail(1, SinksConfig, NOTVALID)
    \/ \E l \in SinksMsgLevels : Log(1, l)
    \/ ~mail_logger[1].present /\ SendMail(1, "ok")

SpecSinks == InitSinks /\ [][NextSinks]_vars

\* The file handlers of manager m that are on the logger.
AttachedFileHandlers(m) ==
    {h \in SeqToSet(loggerHandlers) :
       handlerTab[h].kind = "file" /\ handlerTab[h].owner = m}

\* C15: in a process with one manager, log and send_mail never raise; a
\* sink that is not set up is left alone: log writes no file while no file
\* handler of the manager is attached, nothing to the console before
\* setup_stdout, and leaves the manager without mail logger before
\* setup_mail; send_mail before setup_mail dispatches nothing and changes
\* nothing; and log dispatches no mail and changes no sink object, no
\* handler and not the logger.
C15_UnsetSinksAreNoOps ==
    [][/\ (\E x \in SinksMsgLevels : Log(1, x))
            => /\ last'.err = "none"
               /\ sent' = sent
               /\ AttachedFileHandlers(1) = {} => fs' = fs
               /\ ~stdout_logger[1].present => console' = console
               /\ ~mail_logger[1].present => mail_logger' = mail_logger
               /\ UNCHANGED <<handlerTab, loggerHandlers, loggerLevel,
                              File_Logger, stdout_logger, min_log_level>>
       /\ (SendMail(1, "ok") /\ ~mail_logger[1].present)
            => /\ last'.err = "none"
               /\ UNCHANGED <<fs, handlerTab, loggerHandlers, loggerLevel,
                              File_Logger, stdout_logger, mail_logger,
                              min_log_level, console, sent>>]_vars

\* A manager with no sink set up logged and called send_mail: nothing was
\* written or sent.
C15_Witness ==
    /\ last = [op |-> "send_mail", err |-> "none"]
    /\ calls.log >= 1
    /\ calls.setup_logfile = 0
    /\ ~File_Logger[1].present
    /\ ~stdout_logger[1].present
    /\ ~mail_logger[1].present
    /\ fs = SinksFiles
    /\ console = <<>>
    /\ sent = <<>>

\* C19: in a process with one manager, at most one file handler of the
\* manager is on the logger; after setup_logfile(path, ...) it is the
\* handler made by that call and writes to path; setup_logfile('', ...)
\* leaves none attached, makes no filesystem call, and leaves the levels
\* the console writes and the mail logger as they were; and while none is
\* attached a log call changes no file, is written to the console iff the
\* logger and the console handler admit its level, and is appended to the
\* body of an initialised mail logger iff it reaches its threshold.
C19_OneFileHandler ==
    [][/\ Cardinality(AttachedFileHandlers(1)') <= 1
       /\ \A p \in Paths, l \in SetupLevels :
            SetupLogfile(1, p, 1, l)
            => /\ AttachedFileHandlers(1)' = {File_Logger'[1].log_handler}
               /\ handlerTab'[File_Logger'[1].log_handler].target = p
               /\ File_Logger'[1].log_handler \notin DOMAIN handlerTab
       /\ \A l \in SetupLevels :
            SetupLogfile(1, NoPath, 1, l)
            => /\ AttachedFileHandlers(1)' = {}
               /\ fs' = fs
               /\ fsTrace' = <<>>
               /\ mail_logger' = mail_logger
               /\ \A x \in MsgLevels : ConsoleRecords(x)' <=> ConsoleRecords(x)
       /\ \A x \in SinksMsgLevels :
            (Log(1, x) /\ AttachedFileHandlers(1) = {})
            => /\ fs' = fs
               /\ console' # console
                    <=> /\ stdout_logger[1].present
                        /\ x >= getEffectiveLevel(World)
                        /\ x >= stdout_logger[1].min_log_level
               /\ mail_logger'[1].body # mail_logger[1].body
                    <=> /\ mail_logger[1].initialised
                        /\ x >= mail_logger[1].min_log_level]_vars

\* After setup_logfile on a path and then setup_logfile(''), a log call
\* reached the console and the mail body, and the logfile is still empty.
C19_Witness ==
    /\ last = [op |-> "log", err |-> "none"]
    /\ File_Logger[1].present
    /\ File_Logger[1].log_handler # 0
    /\ AttachedFileHandlers(1) = {}
    /\ console # <<>>
    /\ mail_logger[1].body # <<>>
    /\ fs[<<"b">>] = EmptyFile

(***************************************************************************)
(* Rotation of the current run's file, retention count 0, and the order of *)
(* the renames (Spec).                                                     *)
(***************************************************************************)
\* C16 (as claimed): every setup_logfile on a path marks the path as
\* rotated, whether or not a file was there; so a later setup_logfile of
\* the manager on the path deletes and renames nothing and leaves every
\* file as it was.
C16_EverySetupMarksRotated ==
    [][\A n \in 0..MaxRot, l \in SetupLevels :
         SetupLogfile(1, PathA, n, l)
         => /\ PathA \in SeqToSet(File_Logger'[1].rotated_logfiles)
            /\ firstPre[1][PathA].seen
                 => /\ \A i \in 1..Len(fsTrace') : fsTrace'[i].op = "open"
                    /\ fs' = fs]_vars

\* C17 (as claimed): whenever setup_logfile rotates (the path was not
\* rotated by this manager and a file is there), with any retention count
\* from 0 on, the logfile it opens is empty and what the file held is at
\* path.1.
C17_RotationFreesPath ==
    [][\A n \in 0..MaxRot, l \in SetupLevels :
         (SetupLogfile(1, PathA, n, l) /\ Rotates(File_Logger[1], World, PathA))
         => /\ fs'[PathA] = EmptyFile
            /\ fs'[Fmt(PathA, 1)] = fs[PathA]]_vars

\* The generation g of a rename to path.g.
DstGen(o) == CHOOSE g \in Generations : o.dst = Fmt(PathA, g)

\* C18: in the filesystem calls of one setup_logfile(path, N, _), only
\* path.N is deleted, and before every rename; every rename is to a
\* generation path.g with g in 1..N, from path.(g-1) (from path for g = 1),
\* to a name where no file is at that moment, and the generations renamed
\* to are strictly descending; so every file other than path.N that was
\* there before the call is there after it, under its name or the next.
C18_DescendingRenames ==
    [][\A n \in 0..MaxRot, l \in SetupLevels :
         SetupLogfile(1, PathA, n, l)
         => LET t == fsTrace'
            IN  /\ \A i \in 1..Len(t) :
                      /\ t[i].op = "remove"
                           => i = 1 /\ t[i].src = Fmt(PathA, n)
                      /\ t[i].op = "replace"
                           => /\ ~t[i].clobbers
                              /\ \E g \in 1..n :
                                    /\ t[i].dst = Fmt(PathA, g)
                                    /\ t[i].src = IF g > 1 THEN Fmt(PathA, g - 1)
                                                  ELSE PathA
                /\ \A i, j \in 1..Len(t) :
                      (i < j /\ t[i].op = "replace" /\ t[j].op = "replace")
                      => DstGen(t[i]) > DstGen(t[j])
                /\ \A x \in AllNames :
                      (fs[x].exists /\ x # Fmt(PathA, n))
                      => \/ fs'[x] = fs[x]
                         \/ \E g \in 1..n :
                               /\ x = IF g > 1 THEN Fmt(PathA, g - 1) ELSE PathA
                               /\ fs'[Fmt(PathA, g)] = fs[x]]_vars

\* A rotation with retention count 2 where path.2 was absent: path.1 was
\* renamed to path.2, then path to path.1, then path was opened.
C18_Witness ==
    /\ last.op = "setup_logfile"
    /\ Len(fsTrace) = 3
    /\ fsTrace[1] = [op |-> "replace", src |-> Fmt(PathA, 1),
                     dst |-> Fmt(PathA, 2), clobbers |-> FALSE]
    /\ fsTrace[2] = [op |-> "replace", src |-> PathA,
                     dst |-> Fmt(PathA, 1), clobbers |-> FALSE]
    /\ fsTrace[3].op = "open"

(***************************************************************************)
(* The mail sink's body and initialised flag (SpecMail).                   *)
(***************************************************************************)
\* C20: in every state the body of a mail logger that is not initialised
\* is empty; so a non-empty body belongs to an initialised mail logger that
\* holds the delivery parameters a setup_mail gave it.
C20_UninitialisedBodyEmpty ==
    \A m \in Managers :
       /\ ~mail_logger[m].initialised => mail_logger[m].body = <<>>
       /\ mail_logger[m].body # <<>>
            => /\ mail_logger[m].present
               /\ mail_logger[m].initialised
               /\ ConfigOf(mail_logger[m]) \in MailConfigs

\* After two send_mail calls the text that was accumulated is in the one
\* dispatched mail and the mail logger is uninitialised with an empty body.
C20_Witness ==
    /\ last = [op |-> "send_mail", err |-> "none"]
    /\ calls.send_mail = 2
    /\ Len(sent) = 1
    /\ sent[1].body # <<>>
    /\ mail_logger[1].present
    /\ ~mail_logger[1].initialised
    /\ mail_logger[1].body = <<>>

=============================================================================
